---- MODULE Spec2Model ----
(***************************************************************************)
(* State-machine model of stockapp.py: the Tk callback predict_stock_trend *)
(* with the indicator functions calculate_rsi / calculate_macd it calls.   *)
(*                                                                         *)
(* Floating point numbers are modelled as fixed-point integers with SCALE  *)
(* units per 1.0; NaN is a reserved value.      Prices are whole ticks.   *)
(* The market-data provider, the model/scaler artifacts and the classifier *)
(* are external: their results are nondeterministic inputs of the steps.   *)
(***************************************************************************)
EXTENDS Integers, Sequences, FiniteSets, TLC

VARIABLES
    pc,              \* position inside predict_stock_trend ("idle": mainloop)
    button,          \* predict_button state
    result_label,    \* result_label text and colour
    dialogs,         \* messagebox titles shown by the current/last invocation
    trace,           \* pipeline steps executed by the current/last invocation
    outcome,         \* how the current/last invocation returned
    ticker,          \* local: ticker
    data,            \* local: data (rows of the DataFrame)
    rsi_col,         \* value returned by calculate_rsi
    macd_col,        \* value returned by calculate_macd
    scaled_data,     \* local: scaled_data
    X_input,         \* local: X_input
    prediction,      \* local: prediction
    decision         \* locals best_class, confidence, percentage_move

vars == <<pc, button, result_label, dialogs, trace, outcome, ticker, data,
          rsi_col, macd_col, scaled_data, X_input, prediction, decision>>

(***************************** bounds ***************************************)
\* fixed-point resolution of the modelled floats
SCALE == 1000
\* longest downloaded series
MaxLen == 60
\* how many rows an external scaler may lose
MaxDrop == 1
\* how far the classifier's output length may be off the 11 classes
MaxSkew == 1

(***************************** constants ************************************)
LOOKBACK_DAYS == 30
RSI_WINDOW == 14
SHORT_WINDOW == 12
LONG_WINDOW == 26
SIGNAL_WINDOW == 9

PercentageLabels == <<"Neutral", "+3%", "+7%", "+10%", "+15%", "+30%",
                      "-3%", "-7%", "-10%", "-15%", "-30%">>

PERCENTAGE_MOVES == [k \in 0..10 |-> PercentageLabels[k + 1]]

\* dict.get(key, default)
DictGet(d, k, default) == IF k \in DOMAIN d THEN d[k] ELSE default

(***************************** floats ***************************************)
\* NaN: a value no computation of the model produces as a number
NaN == 0 - 2147483647
None == "None"
IsNaN(v) == v = NaN

Max(a, b) == IF a >= b THEN a ELSE b
Min(a, b) == IF a <= b THEN a ELSE b

\* numpy/pandas arithmetic: NaN propagates
Sub(a, b) == IF IsNaN(a) \/ IsNaN(b) THEN NaN ELSE a - b
Neg(a) == IF IsNaN(a) THEN NaN ELSE 0 - a
\* comparisons with NaN are False
Gt0(a) == ~IsNaN(a) /\ a > 0
Lt0(a) == ~IsNaN(a) /\ a < 0
Eq0(a) == ~IsNaN(a) /\ a = 0

\* the entries a..b of s (1-based, inclusive), order kept
Slice(s, a, b) == [i \in 1..Max(0, b - a + 1) |-> s[a + i - 1]]

RECURSIVE SumSeq(_, _, _)
SumSeq(s, a, b) == IF a > b THEN 0 ELSE s[b] + SumSeq(s, a, b - 1)

\* Series.diff(): first entry NaN
Diff(xs) == [i \in 1..Len(xs) |-> IF i = 1 THEN NaN ELSE Sub(xs[i], xs[i - 1])]

\* Series.where(cond, 0) with cond = (delta > 0) resp. (delta < 0)
WherePositive(delta) == [i \in 1..Len(delta) |-> IF Gt0(delta[i]) THEN delta[i] ELSE 0]
WhereNegative(delta) == [i \in 1..Len(delta) |-> IF Lt0(delta[i]) THEN delta[i] ELSE 0]

\* rolling mean that needs window + 1 observations
RollingMeanLate(xs, window) ==
    [i \in 1..Len(xs) |->
        IF i <= window THEN NaN
        ELSE (SumSeq(xs, i - window + 1, i) * SCALE) \div window]

\* Series.rolling(window).mean(): NaN until `window` observations exist
RollingMean(xs, window) ==
    [i \in 1..Len(xs) |->
        IF i < window THEN NaN
        ELSE (SumSeq(xs, i - window + 1, i) * SCALE) \div window]

\* gain / loss (float division, evaluated only where it is selected)
Ratio(g, l) == IF IsNaN(g) \/ IsNaN(l) THEN NaN ELSE (g * SCALE) \div l

\* line 43: rs = np.where(loss == 0, 0, gain / loss)
RsTextbook(g, l) == IF Eq0(l) THEN 1000000 * SCALE ELSE Ratio(g, l)
Rs(g, l) == IF Eq0(l) THEN 0 ELSE Ratio(g, l)

\* line 44: 100 - (100 / (1 + rs))
RsiOfRs(rs) ==
    IF IsNaN(rs) THEN NaN
    ELSE 100 * SCALE - (100 * SCALE * SCALE) \div (SCALE + rs)

\* lines 41-42: the two rolling averages
GainAvg(closes, window) == RollingMean(WherePositive(Diff(closes)), window)
LossAvg(closes, window) ==
    LET m == RollingMean(WhereNegative(Diff(closes)), window)
    IN  [i \in 1..Len(m) |-> Neg(m[i])]

\* np.zeros(len(data))
ZerosShort(n) == [i \in 1..Max(0, n - 1) |-> 0]
Zeros(n) == [i \in 1..n |-> 0]

\* lines 37-47: the try body, or np.zeros(len(data)) when it raises
calculate_rsi(closes, window, raises) ==
    IF raises THEN Zeros(Len(closes))
    ELSE LET gain == GainAvg(closes, window)
             loss == LossAvg(closes, window)
         IN  [i \in 1..Len(closes) |-> RsiOfRs(Rs(gain[i], loss[i]))]

\* Series.ewm(span, adjust=False).mean(): y0 = x0, y = (1-a) y' + a x, a = 2/(span+1)
RECURSIVE EwmAcc(_, _, _)
EwmAcc(xs, span, acc) ==
    IF Len(acc) = Len(xs) THEN acc
    ELSE LET x == xs[Len(acc) + 1]
             y == IF acc = <<>> THEN x
                  ELSE (2 * x + (span - 1) * acc[Len(acc)]) \div (span + 1)
         IN  EwmAcc(xs, span, Append(acc, y))
Ewm(xs, span) == EwmAcc(xs, span, <<>>)

\* lines 49-59: the try body, or np.zeros(len(data)) when it raises
calculate_macd(closes, short_window, long_window, signal_window, raises) ==
    IF raises THEN Zeros(Len(closes))
    ELSE LET x         == [i \in 1..Len(closes) |-> closes[i] * SCALE]
             short_ema == Ewm(x, short_window)
             long_ema  == Ewm(x, long_window)
             macd      == [i \in 1..Len(x) |-> short_ema[i] - long_ema[i]]
             signal    == Ewm(macd, signal_window)
         IN  [i \in 1..Len(x) |-> macd[i] - signal[i]]

(***************************** inputs ***************************************)
\* what the user may have typed into ticker_entry
Entries == { <<>>, <<" ">>, <<"a", "b">>, <<" ", "X", " ">> }

Lower == <<"a", "b", "x">>
UpperOf == <<"A", "B", "X">>
UpperChar(c) ==
    IF \E k \in 1..Len(Lower) : Lower[k] = c
    THEN UpperOf[CHOOSE k \in 1..Len(Lower) : Lower[k] = c]
    ELSE c
\* str.upper()
Upper(s) == [i \in 1..Len(s) |-> UpperChar(s[i])]
\* str.strip()
RECURSIVE LStrip(_)
LStrip(s) == IF s # <<>> /\ Head(s) = " " THEN LStrip(Tail(s)) ELSE s
RECURSIVE RStrip(_)
RStrip(s) ==
    IF s # <<>> /\ s[Len(s)] = " " THEN RStrip(SubSeq(s, 1, Len(s) - 1)) ELSE s
Strip(s) == RStrip(LStrip(s))

\* lengths of the series the data provider may return
Lengths == {0, 10, 13, 14, 20, 29, 30, 31, 42, 43, MaxLen}
Patterns == {"up", "down", "flat", "zigzag", "rally", "gappy", "nan"}

\* close price of day i of a downloaded series
CloseOf(pat, i) ==
    CASE pat = "up"     -> 100 + i
      [] pat = "down"   -> 200 - i
      [] pat = "flat"   -> 100
      [] pat = "zigzag" -> 100 + 3 * (i % 2) + (i \div 5)
      [] pat = "rally"  -> IF i <= 8 THEN 100 + 3 * (i % 2) ELSE 100 + i
      [] pat = "gappy"  -> IF i % 8 = 0 THEN NaN ELSE 100 + 3 * (i % 2) + (i \div 5)
      [] pat = "nan"    -> NaN

\* yf.download(ticker, period="3mo"): rows ascending by date
Download(n, pat) ==
    [i \in 1..n |-> [Date |-> i, Close |-> CloseOf(pat, i), Volume |-> 1000]]

RowHasNaN(row) == \E f \in DOMAIN row : IsNaN(row[f])

\* DataFrame.dropna(): the rows without NaN, order kept
RECURSIVE DropNa(_)
DropNa(rows) ==
    IF rows = <<>> THEN <<>>
    ELSE IF RowHasNaN(Head(rows)) THEN DropNa(Tail(rows))
         ELSE <<Head(rows)>> \o DropNa(Tail(rows))

Column(rows, f) == [i \in 1..Len(rows) |-> rows[i][f]]

\* lines 79-80: data['RSI'] = ...; data['MACD'] = ...
WithIndicators(rows, rsi, macd) ==
    [i \in 1..Len(rows) |->
        [Date |-> rows[i].Date, Close |-> rows[i].Close, Volume |-> rows[i].Volume,
         RSI |-> rsi[i], MACD |-> macd[i]]]

\* line 87: len(data) < LOOKBACK_DAYS
InsufficientOff(rows) == FALSE
Insufficient(rows) == Len(rows) < LOOKBACK_DAYS

\* scaler.transform(data[['Close','Volume','RSI','MACD']]): a fitted affine map,
\* column by column; the artifact's parameters are not part of the repository
ScalerCenter == <<100, 1000, 50 * SCALE, 0>>
ScaleRow(row) ==
    <<row.Close - ScalerCenter[1], row.Volume - ScalerCenter[2],
      row.RSI - ScalerCenter[3], row.MACD - ScalerCenter[4]>>
Transform(rows) == [i \in 1..Len(rows) |-> ScaleRow(rows[i])]

\* line 107: scaled_data[-LOOKBACK_DAYS:]
LastRows(a, k) == Slice(a, Max(1, Len(a) - k + 1), Len(a))
\* .reshape(1, LOOKBACK_DAYS, 4) is possible iff the sizes agree
CanReshape(a) == Len(a) * 4 = 1 * LOOKBACK_DAYS * 4

\* outputs the classifier may give: one or two (tied) peaks over a floor
Peaked(len, p, q) ==
    [i \in 1..len |-> IF i = p \/ i = q THEN (SCALE * 3) \div 10 ELSE SCALE \div 25]
Predictions ==
    { Peaked(len, p, q) :
        len \in (11 - MaxSkew)..(11 + MaxSkew),
        p \in 1..(11 + MaxSkew), q \in {1, 11 + MaxSkew} }

\* np.argmax: the first index (0-based) of the maximum
IsMaxAt(v, i) == \A j \in 1..Len(v) : v[j] <= v[i]
ArgMax(v) == (CHOOSE i \in 1..Len(v) :
                    IsMaxAt(v, i) /\ \A j \in 1..(i-1) : ~IsMaxAt(v, j)) - 1

\* f"{confidence:.1f}": tenths of a percent, rounded
Format1f(c) == (c * 10 + SCALE \div 2) \div SCALE

\* lines 118-124
DirectionFlipped(best_class) == IF best_class <= 5 THEN "down" ELSE "up"
Direction(best_class) == IF best_class <= 5 THEN "up" ELSE "down"
ResultColor(best_class) ==
    IF best_class = 0 THEN "black"
    ELSE IF best_class <= 5 THEN "green" ELSE "red"
ResultText(tk, best_class, percentage_move, confidence) ==
    IF best_class = 0 THEN <<tk, ": Neutral trend.">>
    ELSE <<tk, " is likely to go ", Direction(best_class), " ", percentage_move,
           " (", Format1f(confidence), "% confidence).">>

(***************************** state machine ********************************)
NoOutcome == [status |-> "None", kind |-> "None"]

Init ==
    /\ pc = "idle"
    /\ button = "normal"
    /\ result_label = [text |-> <<>>, fg |-> "default"]
    /\ dialogs = <<>>
    /\ trace = <<>>
    /\ outcome = NoOutcome
    /\ ticker = None
    /\ data = None
    /\ rsi_col = None
    /\ macd_col = None
    /\ scaled_data = None
    /\ X_input = None
    /\ prediction = None
    /\ decision = None

locals == <<ticker, data, rsi_col, macd_col, scaled_data, X_input, prediction, decision>>

\* the function returns: its locals are gone
Return ==
    /\ pc' = "idle"
    /\ ticker' = None
    /\ data' = None
    /\ rsi_col' = None
    /\ macd_col' = None
    /\ scaled_data' = None
    /\ X_input' = None
    /\ prediction' = None
    /\ decision' = None

\* predict_button.config(state=tk.NORMAL); return   (a failure exit)
FailKeepDisabled(kind) ==
    /\ outcome' = [status |-> "Failed", kind |-> kind]
    /\ UNCHANGED button
    /\ Return
Fail(kind) ==
    /\ outcome' = [status |-> "Failed", kind |-> kind]
    /\ button' = "normal"
    /\ Return

\* lines 63-70: the button is pressed; entry holds e
Click(e) ==
    /\ pc = "idle"
    /\ button = "normal"
    /\ trace' = <<>>
    /\ outcome' = NoOutcome
    /\ LET t == Strip(Upper(e)) IN
       IF t = <<>>
       THEN /\ dialogs' = <<"Input Error">>
            /\ UNCHANGED <<pc, button, result_label, locals>>
       ELSE /\ dialogs' = <<>>
            /\ ticker' = t
            /\ button' = "disabled"
            /\ result_label' = [text |-> <<"Processing...">>, fg |-> "blue"]
            /\ pc' = "fetch"
            /\ UNCHANGED <<data, rsi_col, macd_col, scaled_data, X_input,
                           prediction, decision>>

\* lines 72-76 with get_stock_data (25-35): the download raises
FetchRaises ==
    /\ pc = "fetch"
    /\ trace' = Append(trace, "fetch")
    /\ dialogs' = Append(dialogs, "Data Fetch Error")
    /\ result_label' = [text |-> <<"Failed to retrieve stock data.">>, fg |-> "red"]
    /\ Fail("DataFetch")

\* lines 72-76 with get_stock_data (25-35): the download returns n rows
FetchReturns(n, pat) ==
    /\ pc = "fetch"
    /\ LET raw == Download(n, pat)
           got == DropNa(raw) IN
       IF raw = <<>>
       THEN \* data.empty: ValueError raised and caught inside get_stock_data
            /\ trace' = Append(trace, "fetch")
            /\ dialogs' = Append(dialogs, "Data Fetch Error")
            /\ result_label' = [text |-> <<"Failed to retrieve stock data.">>, fg |-> "red"]
            /\ Fail("DataFetch")
       ELSE IF got = <<>>
       THEN \* line 73: data.empty after dropna
            /\ trace' = trace \o <<"fetch", "validate">>
            /\ result_label' = [text |-> <<"Failed to retrieve stock data.">>, fg |-> "red"]
            /\ UNCHANGED dialogs
            /\ Fail("DataFetch")
       ELSE /\ trace' = trace \o <<"fetch", "validate">>
            /\ data' = got
            /\ pc' = "rsi"
            /\ UNCHANGED <<button, result_label, dialogs, outcome, ticker, rsi_col,
                           macd_col, scaled_data, X_input, prediction, decision>>

\* line 79 (right-hand side), calculate_rsi (37-47)
ComputeRsi(fault) ==
    /\ pc = "rsi"
    /\ trace' = Append(trace, "rsi")
    /\ rsi_col' = calculate_rsi(Column(data, "Close"), RSI_WINDOW, fault)
    /\ dialogs' = IF fault THEN Append(dialogs, "RSI Calculation Error") ELSE dialogs
    /\ pc' = "macd"
    /\ UNCHANGED <<button, result_label, outcome, ticker, data, macd_col,
                   scaled_data, X_input, prediction, decision>>

\* line 80 (right-hand side), calculate_macd (49-59)
ComputeMacd(fault) ==
    /\ pc = "macd"
    /\ trace' = Append(trace, "macd")
    /\ macd_col' = calculate_macd(Column(data, "Close"), SHORT_WINDOW, LONG_WINDOW,
                                  SIGNAL_WINDOW, fault)
    /\ dialogs' = IF fault THEN Append(dialogs, "MACD Calculation Error") ELSE dialogs
    /\ pc' = "assemble"
    /\ UNCHANGED <<button, result_label, outcome, ticker, data, rsi_col,
                   scaled_data, X_input, prediction, decision>>

\* lines 78-85: the two column assignments and dropna, or the except branch
Assemble(fault) ==
    /\ pc = "assemble"
    /\ trace' = Append(trace, "assemble")
    /\ IF fault
       THEN /\ dialogs' = Append(dialogs, "Indicator Error")
            /\ UNCHANGED result_label
            /\ Fail("Indicator")
       ELSE /\ data' = DropNa(WithIndicators(data, rsi_col, macd_col))
            /\ pc' = "lencheck"
            /\ UNCHANGED <<button, result_label, dialogs, outcome, ticker, rsi_col,
                           macd_col, scaled_data, X_input, prediction, decision>>

\* lines 87-91 without the return of line 91
CheckLengthNoReturn ==
    /\ pc = "lencheck"
    /\ trace' = Append(trace, "lencheck")
    /\ IF Insufficient(data)
       THEN /\ dialogs' = Append(dialogs, "Insufficient Data")
            /\ result_label' = [text |-> <<"Insufficient data.">>, fg |-> "red"]
       ELSE UNCHANGED <<dialogs, result_label>>
    /\ pc' = "load"
    /\ UNCHANGED <<button, outcome, locals>>

\* lines 87-91
CheckLength ==
    /\ pc = "lencheck"
    /\ trace' = Append(trace, "lencheck")
    /\ IF Insufficient(data)
       THEN /\ dialogs' = Append(dialogs, "Insufficient Data")
            /\ result_label' = [text |-> <<"Insufficient data.">>, fg |-> "red"]
            /\ Fail("InsufficientData")
       ELSE /\ pc' = "load"
            /\ UNCHANGED <<button, result_label, dialogs, outcome, locals>>

LoadResults == {"ok", "notfound", "error"}

\* lines 93-103: load_model, then joblib.load
Load(model_res, scaler_res) ==
    /\ pc = "load"
    /\ trace' = IF model_res = "ok" THEN trace \o <<"load_model", "load_scaler">>
                ELSE Append(trace, "load_model")
    /\ LET res == IF model_res = "ok" THEN scaler_res ELSE model_res IN
       CASE res = "notfound" ->
              /\ dialogs' = Append(dialogs, "File Error")
              /\ UNCHANGED result_label
              /\ Fail("FileNotFound")
         [] res = "error" ->
              /\ dialogs' = Append(dialogs, "Loading Error")
              /\ UNCHANGED result_label
              /\ Fail("Loading")
         [] res = "ok" ->
              /\ pc' = "scale"
              /\ UNCHANGED <<button, result_label, dialogs, outcome, locals>>

PredictionError ==
    /\ dialogs' = Append(dialogs, "Prediction Error")
    /\ UNCHANGED result_label
    /\ Fail("Prediction")

\* line 106: scaler.transform raises
ScaleRaises ==
    /\ pc = "scale"
    /\ trace' = Append(trace, "scale")
    /\ PredictionError

\* line 106: scaler.transform returns, having lost `drop` rows
Scale(drop) ==
    /\ pc = "scale"
    /\ trace' = Append(trace, "scale")
    /\ scaled_data' = LET t == Transform(data) IN Slice(t, 1, Len(t) - drop)
    /\ pc' = "window"
    /\ UNCHANGED <<button, result_label, dialogs, outcome, ticker, data, rsi_col,
                   macd_col, X_input, prediction, decision>>

\* line 107
Window ==
    /\ pc = "window"
    /\ trace' = Append(trace, "window")
    /\ LET w == LastRows(scaled_data, LOOKBACK_DAYS) IN
       IF CanReshape(w)
       THEN /\ X_input' = <<w>>
            /\ pc' = "predict"
            /\ UNCHANGED <<button, result_label, dialogs, outcome, ticker, data,
                           rsi_col, macd_col, scaled_data, prediction, decision>>
       ELSE PredictionError

\* line 108: model.predict raises
PredictRaises ==
    /\ pc = "predict"
    /\ trace' = Append(trace, "predict")
    /\ PredictionError

\* line 108: model.predict(X_input)[0] returns p
Predict(p) ==
    /\ pc = "predict"
    /\ trace' = Append(trace, "predict")
    /\ prediction' = p
    /\ pc' = "decide"
    /\ UNCHANGED <<button, result_label, dialogs, outcome, ticker, data, rsi_col,
                   macd_col, scaled_data, X_input, decision>>

\* lines 114-126
Decide ==
    /\ pc = "decide"
    /\ trace' = Append(trace, "decide")
    /\ LET best_class == ArgMax(prediction)
           confidence == prediction[best_class + 1] * 100
           percentage_move == DictGet(PERCENTAGE_MOVES, best_class, "Unknown")
       IN  /\ decision' = [best_class |-> best_class, confidence |-> confidence,
                           percentage_move |-> percentage_move]
           /\ result_label' =
                 [text |-> ResultText(ticker, best_class, percentage_move, confidence),
                  fg |-> ResultColor(best_class)]
    /\ pc' = "finish"
    /\ UNCHANGED <<button, dialogs, outcome, ticker, data, rsi_col, macd_col,
                   scaled_data, X_input, prediction>>

\* line 127, and the function ends
Finish ==
    /\ pc = "finish"
    /\ button' = "normal"
    /\ outcome' = [status |-> "Done", kind |-> "None"]
    /\ Return
    /\ UNCHANGED <<result_label, dialogs, trace>>

Next ==
    \/ \E e \in Entries : Click(e)
    \/ FetchRaises
    \/ \E n \in Lengths, pat \in Patterns : FetchReturns(n, pat)
    \/ \E fault \in BOOLEAN : ComputeRsi(fault)
    \/ \E fault \in BOOLEAN : ComputeMacd(fault)
    \/ \E fault \in BOOLEAN : Assemble(fault)
    \/ CheckLength
    \/ \E m \in LoadResults, s \in LoadResults : Load(m, s)
    \/ ScaleRaises
    \/ \E drop \in 0..MaxDrop : Scale(drop)
    \/ Window
    \/ PredictRaises
    \/ \E p \in Predictions : Predict(p)
    \/ Decide
    \/ Finish

Spec == Init /\ [][Next]_vars

(***************************** properties ***********************************)
InTrace(step) == \E i \in 1..Len(trace) : trace[i] = step
Shown(title) == \E i \in 1..Len(dialogs) : dialogs[i] = title
Failed(kind) == outcome = [status |-> "Failed", kind |-> kind]
IsPrefix(s, t) == Len(s) <= Len(t) /\ \A i \in 1..Len(s) : s[i] = t[i]
LastOf(s) == s[Len(s)]

\* the pipeline steps in program order
FullOrder == <<"fetch", "validate", "rsi", "macd", "assemble", "lencheck",
               "load_model", "load_scaler", "scale", "window", "predict", "decide">>
ExternalSteps == {"load_model", "load_scaler", "scale", "window", "predict"}
AfterLengthCheck == {"load", "scale", "window", "predict", "decide", "finish"}
IndicatorFaults == {"RSI Calculation Error", "MACD Calculation Error"}
NoIndicatorFault == \A t \in IndicatorFaults : ~Shown(t)

\* number of leading NaN entries of a column
LeadingNaN(col) ==
    IF \A i \in 1..Len(col) : IsNaN(col[i]) THEN Len(col)
    ELSE (CHOOSE i \in 1..Len(col) :
            ~IsNaN(col[i]) /\ \A j \in 1..(i - 1) : IsNaN(col[j])) - 1

Ascending(xs) == \A i \in 1..(Len(xs) - 1) : xs[i] < xs[i + 1]

\* C1: a run whose assembled feature table has fewer than LOOKBACK_DAYS rows
\* ends in Failed(InsufficientData) and has invoked no model load, scaler
\* load, scaling, windowing or prediction step; no run gets past the length
\* check with fewer than LOOKBACK_DAYS rows.
C1_InsufficientBeforeExternals ==
    /\ pc \in AfterLengthCheck => Len(data) >= LOOKBACK_DAYS
    /\ Failed("InsufficientData") =>
          /\ \A s \in ExternalSteps : ~InTrace(s)
          /\ LastOf(trace) = "lencheck"
          /\ LastOf(dialogs) = "Insufficient Data"
          /\ result_label = [text |-> <<"Insufficient data.">>, fg |-> "red"]
    /\ (pc = "idle" /\ InTrace("lencheck") /\ ~InTrace("load_model")) =>
          Failed("InsufficientData")

C1_Witness ==
    /\ pc = "idle"
    /\ Failed("InsufficientData")
    /\ trace = <<"fetch", "validate", "rsi", "macd", "assemble", "lencheck">>

\* the step at which each failure kind is reported
StepsOfKind(kind) ==
    CASE kind = "DataFetch"        -> {"fetch", "validate"}
      [] kind = "Indicator"        -> {"assemble"}
      [] kind = "InsufficientData" -> {"lencheck"}
      [] kind = "FileNotFound"     -> {"load_model", "load_scaler"}
      [] kind = "Loading"          -> {"load_model", "load_scaler"}
      [] kind = "Prediction"       -> {"scale", "window", "predict"}
KindOfDialog(title) ==
    CASE title = "Data Fetch Error"  -> "DataFetch"
      [] title = "Indicator Error"   -> "Indicator"
      [] title = "Insufficient Data" -> "InsufficientData"
      [] title = "File Error"        -> "FileNotFound"
      [] title = "Loading Error"     -> "Loading"
      [] title = "Prediction Error"  -> "Prediction"
RunStarted == dialogs # <<"Input Error">> /\ (pc # "idle" \/ trace # <<>>)

\* C2 (as stated): once any stage reports an error the run executes no
\* later stage and ends in Failed with that stage's kind, and a run reaches
\* Done only if no stage reported an error.
C2_Original ==
    /\ (RunStarted /\ dialogs # <<>>) =>
          /\ pc = "idle"
          /\ outcome.status = "Failed"
    /\ outcome.status = "Done" => dialogs = <<>>

\* C2 (amended): the steps of a run are executed in program order, none
\* twice; an error reported by any step other than a fault caught inside
\* calculate_rsi / calculate_macd ends the run at that step in Failed with
\* that step's kind; a run reaches Done only after all steps ran in order
\* and with no error other than those two indicator faults.
C2_ShortCircuit ==
    /\ IsPrefix(trace, FullOrder)
    /\ \A i \in 1..Len(dialogs) :
          (RunStarted /\ dialogs[i] \notin IndicatorFaults) =>
             /\ i = Len(dialogs)
             /\ pc = "idle"
             /\ Failed(KindOfDialog(dialogs[i]))
    /\ outcome.status = "Failed" => LastOf(trace) \in StepsOfKind(outcome.kind)
    /\ outcome.status = "Done" =>
          /\ trace = FullOrder
          /\ \A i \in 1..Len(dialogs) : dialogs[i] \in IndicatorFaults
    /\ outcome.status # "None" => pc = "idle"

C2_Witness ==
    /\ Failed("Loading")
    /\ trace = <<"fetch", "validate", "rsi", "macd", "assemble", "lencheck",
                 "load_model", "load_scaler">>
    /\ dialogs = <<"Loading Error">>

\* the label table and directions the claim states
StatedLabels == <<"Neutral", "+3%", "+7%", "+10%", "+15%", "+30%",
                  "-3%", "-7%", "-10%", "-15%", "-30%">>
PlusLabels == {"+3%", "+7%", "+10%", "+15%", "+30%"}
MinusLabels == {"-3%", "-7%", "-10%", "-15%", "-30%"}

\* C3: for every class index c in 0..10 the decision's label is the c-th
\* entry of the fixed table, the direction is Neutral for c = 0, up for
\* 1..5 and down for 6..10, the colour is black / green / red accordingly,
\* and the sign of the label agrees with the direction.
C3_LabelAndDirection ==
    (pc = "finish" /\ decision.best_class \in 0..10) =>
       LET c == decision.best_class IN
       /\ c = ArgMax(prediction)
       /\ decision.percentage_move = StatedLabels[c + 1]
       /\ c = 0 =>
            /\ result_label.text = <<ticker, ": Neutral trend.">>
            /\ result_label.fg = "black"
            /\ decision.percentage_move = "Neutral"
       /\ c \in 1..5 =>
            /\ result_label.text[3] = "up"
            /\ result_label.text[5] = decision.percentage_move
            /\ result_label.fg = "green"
            /\ decision.percentage_move \in PlusLabels
       /\ c \in 6..10 =>
            /\ result_label.text[3] = "down"
            /\ result_label.text[5] = decision.percentage_move
            /\ result_label.fg = "red"
            /\ decision.percentage_move \in MinusLabels

C3_Witness ==
    /\ pc = "finish"
    /\ decision.best_class = 8
    /\ decision.percentage_move = "-10%"
    /\ result_label.fg = "red"

\* C4 (as stated): a run that fails at windowing, which happens when the
\* scaled table has fewer than LOOKBACK_DAYS rows, fails with
\* InsufficientData; otherwise the window is the last LOOKBACK_DAYS rows of
\* the scaled table in their order.
C4_WindowChecksRows ==
    /\ (outcome.status = "Failed" /\ LastOf(trace) = "window") =>
          outcome.kind = "InsufficientData"
    /\ pc = "predict" =>
          /\ Len(X_input) = 1
          /\ Len(X_input[1]) = LOOKBACK_DAYS
          /\ \A k \in 1..LOOKBACK_DAYS :
                X_input[1][k] = scaled_data[Len(scaled_data) - LOOKBACK_DAYS + k]

\* C5 (as stated): without indicator faults the assembled table has
\* N - max(w1, w2) rows (0 when N <= max(w1, w2)), in original order, with
\* w1 = window - 1 leading undefined RSI entries and w2, the leading
\* undefined MACD entries, roughly long_window + signal_window.
C5_Original ==
    (pc = "lencheck" /\ NoIndicatorFault) =>
       LET N == Len(rsi_col) IN
       \E w2 \in (LONG_WINDOW - 1)..(LONG_WINDOW + SIGNAL_WINDOW) :
          /\ Len(data) = Max(0, N - Max(RSI_WINDOW - 1, w2))
          /\ Ascending(Column(data, "Date"))

\* C5 (amended): without indicator faults the assembled table has
\* N - max(w1, w2) rows, in original order, where w1 = min(N, window - 1)
\* is the number of leading undefined RSI entries and w2 = 0 is the number
\* of leading undefined MACD entries: N - 13 rows, and 0 rows when N <= 13.
C5_AssembledRows ==
    /\ pc = "assemble" => Len(rsi_col) = Len(data) /\ Len(macd_col) = Len(data)
    /\ (pc = "lencheck" /\ NoIndicatorFault) =>
          LET N  == Len(rsi_col)
              w1 == LeadingNaN(rsi_col)
              w2 == LeadingNaN(macd_col)
          IN  /\ w1 = Min(N, RSI_WINDOW - 1)
              /\ w2 = 0
              /\ Len(data) = N - Max(w1, w2)
              /\ Len(data) = Max(0, N - 13)
              /\ Ascending(Column(data, "Date"))
              /\ \A i \in 1..Len(data) :
                    /\ ~IsNaN(data[i].RSI) /\ data[i].RSI = rsi_col[N - Len(data) + i]
                    /\ data[i].MACD = macd_col[N - Len(data) + i]

C5_Witness ==
    /\ pc = "lencheck"
    /\ NoIndicatorFault
    /\ Len(rsi_col) = 31
    /\ Len(data) = 18

\* C6: calculate_rsi returns a series as long as its input; every defined
\* entry lies in [0, 100]; every defined entry where the trailing average
\* loss is 0 equals exactly 0, also when the average gain is positive.
C6_RsiRange ==
    pc = "macd" =>
       /\ Len(rsi_col) = Len(data)
       /\ \A i \in 1..Len(rsi_col) :
             ~IsNaN(rsi_col[i]) => (0 <= rsi_col[i] /\ rsi_col[i] <= 100 * SCALE)
       /\ ~Shown("RSI Calculation Error") =>
             LET loss == LossAvg(Column(data, "Close"), RSI_WINDOW) IN
             \A i \in 1..Len(rsi_col) :
                /\ IsNaN(rsi_col[i]) <=> i < RSI_WINDOW
                /\ Eq0(loss[i]) => rsi_col[i] = 0

C6_Witness ==
    /\ pc = "macd"
    /\ ~Shown("RSI Calculation Error")
    /\ \E i \in 1..Len(rsi_col) :
          /\ Eq0(LossAvg(Column(data, "Close"), RSI_WINDOW)[i])
          /\ Gt0(GainAvg(Column(data, "Close"), RSI_WINDOW)[i])
          /\ rsi_col[i] = 0
    /\ \E i \in 1..Len(rsi_col) : ~IsNaN(rsi_col[i]) /\ rsi_col[i] > 0

\* C7 (as stated): for a 60-day series of strictly increasing closes and
\* constant volume the zero-loss rule of calculate_rsi is not triggered and
\* the RSI is near 100 at every position after the warm-up.
C7_RisingRsiNear100 ==
    (/\ pc = "macd"
     /\ ~Shown("RSI Calculation Error")
     /\ Len(data) = 60
     /\ Ascending(Column(data, "Close"))
     /\ \A i \in 1..Len(data) : data[i].Volume = data[1].Volume) =>
       LET loss == LossAvg(Column(data, "Close"), RSI_WINDOW) IN
       \A i \in RSI_WINDOW..Len(rsi_col) :
          /\ ~Eq0(loss[i])
          /\ rsi_col[i] >= 99 * SCALE

\* C8: a fault inside calculate_rsi or calculate_macd is reported, the
\* function returns zeros as long as its input, and the run goes on to
\* assembling with that series, which drops no row on account of that
\* indicator; no other reported error lets the run continue.
C8_IndicatorFaultContinues ==
    /\ (pc = "macd" /\ Shown("RSI Calculation Error")) =>
          /\ rsi_col = [i \in 1..Len(data) |-> 0]
          /\ outcome.status = "None"
    /\ (pc = "assemble" /\ Shown("MACD Calculation Error")) =>
          /\ macd_col = [i \in 1..Len(data) |-> 0]
          /\ outcome.status = "None"
    /\ (pc = "lencheck" /\ Shown("RSI Calculation Error")) => Len(data) = Len(rsi_col)
    /\ (pc = "lencheck" /\ Shown("MACD Calculation Error")) =>
          Len(data) = Len(macd_col) - LeadingNaN(rsi_col)
    /\ pc # "idle" => \A i \in 1..Len(dialogs) : dialogs[i] \in IndicatorFaults

C8_Witness ==
    /\ outcome.status = "Done"
    /\ dialogs = <<"RSI Calculation Error", "MACD Calculation Error">>

\* C9 (as stated): when the classifier's output does not have exactly 11
\* entries no decision is produced or displayed.
C9_MalformedFailsFast ==
    pc = "finish" => Len(prediction) = 11

\* C10: from a click with a non-empty ticker until the function returns the
\* button is disabled; whenever no run is in progress, after any exit and
\* after a click with an empty ticker, it is enabled.
C10_ReentryGuard ==
    /\ pc = "idle" => button = "normal"
    /\ pc # "idle" => button = "disabled"
    /\ dialogs = <<"Input Error">> => (pc = "idle" /\ trace = <<>> /\ button = "normal")

C10_Witness ==
    /\ pc = "idle"
    /\ Failed("Prediction")
    /\ button = "normal"

====
